---- MODULE Spec2Model ----
\* TinyNTPClient (src/src/TinyNTPClient.h): a model of the client's anchor
\* (_lastNtpTime, _lastUpdateMillis), its display offset, the request/response
\* exchange with its timeout loop and chunked read, and the monotonic counter.
\*
\* Word arithmetic.  TLC's integers are 32 bits wide, so uint32_t is modelled as
\* a word of four "bytes" of radix ByteRadix (256 in the program): every sum,
\* difference and conversion is reduced modulo Word exactly where the program
\* reduces modulo 2^32, and uint64_t is two such words, high and low.
\*
\* Scale.  Quantities the program fixes (1000 ms per second, 3600 s per hour,
\* the timeout of 6000 ms) and the small quantities of a run (a few ticks, a
\* few seconds, server time a hundred seconds after the epoch) keep their
\* values; quantities tied to the width of a word (the counter's maximum, the
\* range of a 32-bit long, the epoch delta, which lies 1.4 % of a word above
\* half a word) scale with Word.  The radix is chosen so that the two kinds
\* stay apart: sums and differences of the small quantities of a run are far
\* smaller than the distance between any two of 0, Word / 2, the epoch delta
\* and Word, as they are in the program, and no run carries the counter from
\* a small reading up to the maximum tick by tick.
EXTENDS Integers, Sequences, FiniteSets, TLC

\* ---------------------------------------------------------------- bounds
\* radix of one byte of a word (the program: 256)
ByteRadix == 32
\* API calls (begin, end, update, setTimeOffset*) in one run
MaxOps == 2
\* ticks of the monotonic counter in one run
MaxTicks == 2

\* -------------------------------------------------------------- integers
\* uint32_t: values 0 .. Word-1
Word == ByteRadix * ByteRadix * ByteRadix * ByteRadix
U32(x) == x % Word
\* a reading x of the counter as ::millis() returns it: the counter wraps at
\* the width of unsigned long (a 64-bit counter does not wrap within a run)
ULong(x, m64) == IF m64 THEN x ELSE U32(x)
\* uint64_t: x modulo Word * Word, as its high and low word
U64(x) == [hi |-> (x \div Word) % Word, lo |-> x % Word]
\* (uint32_t)(v / d) of a uint64_t v and a divisor d below a word: the low
\* word of the quotient, by long division
Div64To32(v, d) == ((v.hi % d) * Word + v.lo) \div d

\* C++ integer division truncates toward zero
TruncDiv(a, b) == IF a >= 0 THEN a \div b ELSE -((-a) \div b)

\* seconds between 1900-01-01 and 1970-01-01: 2208988800UL = 0x83AA7E80
\* = 2^31 + 0x03AA7E80, half a word and the bytes 0x03, 0xAA, 0x7E, 0x80, each
\* byte brought to the radix
NTP_EPOCH_DELTA ==
  Word \div 2
    + ((((3 * ByteRadix) \div 256) * ByteRadix
         + (170 * ByteRadix) \div 256) * ByteRadix
         + (126 * ByteRadix) \div 256) * ByteRadix
    + (128 * ByteRadix) \div 256

\* sizeof(NTPPacket)
NTP_PACKET_SIZE == 48

\* default of the constructor's timeoutMs
DEFAULT_TIMEOUT_MS == 6000

\* packet.li_vn_mode = 0xDB
LI_VN_MODE == 219

\* setTimeOffsetHours: hours * 3600
SECONDS_PER_HOUR == 3600

VARIABLES
  \* the client
  lastNtpTime,        \* _lastNtpTime      (uint32_t)
  lastUpdateMillis,   \* _lastUpdateMillis (uint32_t)
  timeOffsetSeconds,  \* _timeOffsetSeconds (long)
  timeoutMs,          \* _timeoutMs        (uint32_t)
  \* the platform
  millis,             \* ::millis(), the monotonic counter (unsigned long)
  littleEndian,       \* isLittleEndian()
  long64,             \* TRUE: long is 64 bits (LP64), FALSE: 32 bits (ILP32)
  overflowWraps,      \* what the build makes of a long sum out of range
  millis64,           \* TRUE: ::millis() returns a 64-bit unsigned long (a
                      \* build where long is 64 bits), FALSE: 32 bits
  \* update() / ntpExchange() in progress
  pc,                 \* "idle" | "send" (line 225) | "poll" (line 233) |
                      \* "read" (line 257)
  phase,              \* "none" | "boot" (updateWithoutRTC) | "rtc" (updateWithRTC)
  txTm_s,             \* ntpExchange's argument
  timeout_ms,         \* local timeout_ms
  t3_millis,          \* local t3_millis
  totalRead,          \* local totalRead
  \* history
  sent,               \* the requests (as seen on the wire) sent by the current update()
  ret,                \* what the last update() returned: "none" | "ok" | "fail"
  xpre,               \* the anchor when the current ntpExchange() was called
  lastEv,             \* the last event on the anchor: "init" | "end" | "xok" | "xfail"
  xlog,               \* what the last successful exchange sent and decoded
  synced,             \* an exchange has succeeded since construction or end()
  t3_ticks,           \* ticks elapsed when t3_millis was taken
  xend,               \* how the last exchange ended: the message it logged
                      \* ("" for none) and the byte count it got
  rd,                 \* the last read of the time (getTimeMs, getTimeSec, getTm)
                      \* and the getTimeMs() a second context is in (SpecRace)
  ops,                \* API calls made
  ticks,              \* ticks elapsed
  \* a second client on the same platform, counter and server, for comparing
  \* two clients that differ in their display offset (SpecPair): its members,
  \* the argument of its ntpExchange in progress (txTm_s) and of its last
  \* successful one (arg); updated: an exchange has succeeded since the
  \* display offsets were last set
  twin

client == <<lastNtpTime, lastUpdateMillis, timeOffsetSeconds, timeoutMs>>
platform == <<littleEndian, long64, overflowWraps, millis64>>
locals == <<pc, phase, txTm_s, timeout_ms, t3_millis, totalRead>>
history == <<sent, ret, xpre, lastEv, xlog, synced, t3_ticks>>
vars == <<client, platform, rd, xend, millis, locals, history, ops, ticks, twin>>

\* ------------------------------------------------------- inputs of a run
\* the short timeout a client may be constructed with, beside the default
ShortTimeout == 1
\* counter readings at construction: zero, and close enough to the maximum
\* for the counter to wrap during a run
StartTicks == {0, Word - 1 - ShortTimeout}
\* replies (big-endian field values on the wire) to a request whose transmit
\* seconds are t1: a server that echoes t1 as originate and stamps receive and
\* transmit from its clock (NTP seconds), one whose transmit seconds are 0, and
\* one that does not echo
ServerEarly == NTP_EPOCH_DELTA + 100
ServerLate == NTP_EPOCH_DELTA + 103
ReplyKinds == {"early", "between", "late", "zero", "noecho"}
ReplyOf(kind, t1) ==
  [ origTm_s |-> IF kind = "noecho" THEN ServerEarly - 1 ELSE t1,
    rxTm_s |-> IF kind = "late" THEN ServerLate ELSE ServerEarly,
    txTm_s |-> IF kind = "zero" THEN 0
               ELSE IF kind \in {"between", "late"} THEN ServerLate
               ELSE ServerEarly ]
Replies(t1) == { ReplyOf(kind, t1) : kind \in ReplyKinds }
\* parsePacket() results other than 0
PacketSizes == {20, NTP_PACKET_SIZE, 60}
\* read() results above 0
ChunkSizes == {24, NTP_PACKET_SIZE}
\* arguments of setTimeOffsetSeconds and setTimeOffsetHours
OffsetSeconds == {-3}
OffsetHours == {1}

\* ------------------------------------------------------------ byte order
\* swap32, lines 183-186: the four bytes of the word in reverse order
swap32(value) ==
  LET b0 == value % ByteRadix
      b1 == (value \div ByteRadix) % ByteRadix
      b2 == (value \div (ByteRadix * ByteRadix)) % ByteRadix
      b3 == (value \div (ByteRadix * ByteRadix * ByteRadix)) % ByteRadix
  IN  ((b0 * ByteRadix + b1) * ByteRadix + b2) * ByteRadix + b3

l_htonl(hostlong, le) == IF le THEN swap32(hostlong) ELSE hostlong
l_ntohl(netlong, le) == IF le THEN swap32(netlong) ELSE netlong

\* The struct travels as its bytes in memory order (write of the reinterpreted
\* struct, line 227; read into the reinterpreted struct, lines 243 and 258).
\* MemToWire: the big-endian value of the four bytes a host word occupies;
\* WireToMem: the host word made of four bytes received in that order.
MemToWire(w, le) == IF le THEN swap32(w) ELSE w
WireToMem(v, le) == IF le THEN swap32(v) ELSE v

\* ------------------------------------------------------------- Time Base
MS_PER_SECOND == 1000

\* getTimeMs with the elapsed ticks subtracted in 64 bits, not in uint32_t
getTimeMs_WideElapsed(ntp, upd, off, now) ==
  IF upd = 0 THEN U64(0)
  ELSE U64(ntp * MS_PER_SECOND + (now - upd) + off * MS_PER_SECOND)

\* getTimeMs, lines 65-75, on anchor (ntp, upd), display offset off and a
\* reading now of ::millis()
getTimeMs(ntp, upd, off, now) ==
  IF upd = 0 THEN U64(0)
  ELSE LET ms_since_update == U32(now - upd)
       IN  U64(ntp * MS_PER_SECOND + ms_since_update + off * MS_PER_SECOND)

\* getTimeSec, lines 56-59
getTimeSec(ntp, upd, off, now) ==
  Div64To32(getTimeMs(ntp, upd, off, now), MS_PER_SECOND)

\* operator bool, line 126
hasAnchor(upd) == upd # 0

\* getTm, lines 87-92: gmtime_r of getTimeSec(), as the time of day and the
\* count of days since 1970-01-01
getTm(sec) ==
  [ tm_sec |-> sec % 60, tm_min |-> (sec \div 60) % 60,
    tm_hour |-> (sec \div 3600) % 24, days |-> sec \div 86400 ]

\* the last read (op, at, ms, sec, tm), and a getTimeMs() in progress in a
\* second context: its position pc ("none" | "counter" | "tick" | "ntp"), its
\* counter reading now and its local ms_since_update, the number of the call,
\* and the complete anchors that have existed since it began (seen)
NoRead == [op |-> "none", prev |-> "none", at |-> 0, tk |-> 0, ops |-> 0,
           ms |-> U64(0), sec |-> 0, tm |-> getTm(0),
           pc |-> "none", call |-> 0, now |-> 0, ms_since_update |-> 0,
           seen |-> {}]

\* ----------------------------------------------------------- Sync Engine
\* (long)x of a uint32_t x: the value itself where long is 64 bits, its
\* two's complement reading where long is 32 bits
ToLong(u, l64) == IF l64 \/ 2 * u < Word THEN u ELSE u - Word

\* a + b in long.  With a 32-bit long the sum can leave the range of long,
\* which is undefined: a build either wraps it (wraps) or goes on with the
\* exact value.
LongAdd(a, b, l64, wraps) ==
  IF l64 \/ ~wraps THEN a + b ELSE ToLong(U32(a + b), FALSE)

\* lines 282-283: offset
NtpOffset(originate, receive, transmit, t3_ntp, l64, wraps) ==
  TruncDiv(LongAdd(ToLong(U32(receive - originate), l64),
                   ToLong(U32(transmit - t3_ntp), l64), l64, wraps), 2)

\* updateWithoutRTC passes 0 (line 309); updateWithRTC (lines 319-321) passes
\* getTimeSec() + 2208988800UL as uint32_t, read at counter reading now
TransmitSeconds(ph, ntp, upd, off, now) ==
  IF ph = "boot" THEN 0
  ELSE U32(getTimeSec(ntp, upd, off, now) + NTP_EPOCH_DELTA)

\* lines 272-298: the anchor ntpExchange(arg) installs on anchor (ntp, upd)
\* and display offset off, once the 48 bytes of datagram reply (its fields as
\* the big-endian values on the wire) are in the struct; t3 is t3_millis and
\* now the counter reading at line 280.  With what was decoded.
Installed(ntp, upd, off, arg, reply, t3, now, le, l64, wraps) ==
  LET originate == l_ntohl(WireToMem(reply.origTm_s, le), le)
      receive == l_ntohl(WireToMem(reply.rxTm_s, le), le)
      transmit == l_ntohl(WireToMem(reply.txTm_s, le), le)
      useOffset == arg # 0
      t3_unix == getTimeSec(ntp, upd, off, now)
      t3_ntp == U32(t3_unix + NTP_EPOCH_DELTA)
      offset == NtpOffset(originate, receive, transmit, t3_ntp, l64, wraps)
  IN  IF useOffset
        THEN [ntp |-> U32(transmit - NTP_EPOCH_DELTA + offset), upd |-> t3,
              originate |-> originate, receive |-> receive,
              transmit |-> transmit, t3_ntp |-> t3_ntp]
        ELSE [ntp |-> U32(transmit - NTP_EPOCH_DELTA), upd |-> t3,
              originate |-> 0, receive |-> 0,
              transmit |-> transmit, t3_ntp |-> 0]

\* the request packet of lines 217-223, as the struct in memory
Request(tx, le) ==
  [ li_vn_mode |-> LI_VN_MODE, stratum |-> 0, poll |-> 0, precision |-> 0,
    rootDelay |-> 0, rootDispersion |-> 0, refId |-> 0,
    refTm_s |-> 0, refTm_f |-> 0, origTm_s |-> 0, origTm_f |-> 0,
    rxTm_s |-> 0, rxTm_f |-> 0, txTm_s |-> l_htonl(tx, le), txTm_f |-> 0 ]

\* the datagram a struct in memory makes on the wire (big-endian field values)
OnWire(p, le) ==
  [ li_vn_mode |-> p.li_vn_mode, stratum |-> p.stratum, poll |-> p.poll,
    precision |-> p.precision,
    rootDelay |-> MemToWire(p.rootDelay, le),
    rootDispersion |-> MemToWire(p.rootDispersion, le),
    refId |-> MemToWire(p.refId, le),
    refTm_s |-> MemToWire(p.refTm_s, le), refTm_f |-> MemToWire(p.refTm_f, le),
    origTm_s |-> MemToWire(p.origTm_s, le), origTm_f |-> MemToWire(p.origTm_f, le),
    rxTm_s |-> MemToWire(p.rxTm_s, le), rxTm_f |-> MemToWire(p.rxTm_f, le),
    txTm_s |-> MemToWire(p.txTm_s, le), txTm_f |-> MemToWire(p.txTm_f, le) ]

NoTwin == [lastNtpTime |-> 0, lastUpdateMillis |-> 0, timeOffsetSeconds |-> 0,
           txTm_s |-> 0, arg |-> 0, updated |-> FALSE]
NoLog == [arg |-> 0, originate |-> 0, receive |-> 0, transmit |-> 0,
          t3_ntp |-> 0, ntp |-> 0, t3 |-> 0, t3_ticks |-> 0]
NoEnd == [msg |-> "", got |-> 0]

\* ---------------------------------------------------------------- Init
\* the client after construction (member initialisers, lines 168-174, and the
\* constructor, lines 29-31), on some platform, at some counter reading
Init ==
  /\ lastNtpTime = 0 /\ lastUpdateMillis = 0 /\ timeOffsetSeconds = 0
  /\ timeoutMs = ShortTimeout
  /\ millis \in StartTicks
  /\ littleEndian \in BOOLEAN /\ long64 \in BOOLEAN
  /\ overflowWraps \in IF long64 THEN {TRUE} ELSE BOOLEAN
  /\ millis64 \in IF long64 THEN BOOLEAN ELSE {FALSE}
  /\ pc = "idle" /\ phase = "none"
  /\ txTm_s = 0 /\ timeout_ms = 0 /\ t3_millis = 0
  /\ totalRead = 0
  /\ sent = <<>> /\ ret = "none" /\ xpre = <<0, 0>>
  /\ lastEv = "init" /\ xlog = NoLog /\ synced = FALSE /\ t3_ticks = 0
  /\ ops = 0 /\ ticks = 0
  /\ twin = NoTwin
  /\ rd = NoRead /\ xend = NoEnd

\* ------------------------------------------------- entering an exchange
\* updateWithoutRTC (lines 306-310) or updateWithRTC (lines 317-322) on anchor
\* (ntp, upd) calls ntpExchange, which builds the request (lines 217-223):
\* the transmit seconds come from the counter reading of this call.  log: the
\* requests the current update() has sent so far.
EnterExchange(ph, ntp, upd, log) ==
  /\ phase' = ph
  /\ txTm_s' = TransmitSeconds(ph, ntp, upd, timeOffsetSeconds, millis)
  /\ sent' = log
  /\ pc' = "send"
  /\ timeout_ms' = 0 /\ t3_millis' = 0 /\ totalRead' = 0 /\ t3_ticks' = 0
  /\ xpre' = <<ntp, upd>>

\* update() that always goes straight to updateWithRTC
CallUpdate_RtcOnly(ntp, upd) ==
  /\ ret' = "none"
  /\ EnterExchange("rtc", ntp, upd, <<>>)

\* update(), lines 120-123, called on anchor (ntp, upd)
CallUpdate(ntp, upd) ==
  /\ ret' = "none"
  /\ EnterExchange(IF upd = 0 THEN "boot" ELSE "rtc", ntp, upd, <<>>)

\* update() with || for &&: a successful updateWithoutRTC makes it return true
ExchangeReturns_Or(ok, ntp, upd) ==
  /\ lastNtpTime' = ntp
  /\ lastUpdateMillis' = upd
  /\ lastEv' = IF ok THEN "xok" ELSE "xfail"
  /\ synced' = (ok \/ synced)
  /\ IF ok /\ phase = "boot"
       THEN /\ EnterExchange("rtc", ntp, upd, sent)
            /\ UNCHANGED ret
       ELSE /\ ret' = IF ok \/ Len(sent) = 2 THEN "ok" ELSE "fail"
            /\ pc' = "idle" /\ phase' = "none"
            /\ txTm_s' = 0 /\ timeout_ms' = 0 /\ t3_millis' = 0
            /\ totalRead' = 0 /\ t3_ticks' = 0
            /\ UNCHANGED <<sent, xpre>>

\* ntpExchange returns ok, leaving anchor (ntp, upd): update() goes on with
\* updateWithRTC after a successful updateWithoutRTC and returns otherwise
ExchangeReturns(ok, ntp, upd) ==
  /\ lastNtpTime' = ntp
  /\ lastUpdateMillis' = upd
  /\ lastEv' = IF ok THEN "xok" ELSE "xfail"
  /\ synced' = (ok \/ synced)
  /\ IF ok /\ phase = "boot"
       THEN /\ EnterExchange("rtc", ntp, upd, sent)
            /\ UNCHANGED ret
       ELSE /\ ret' = IF ok THEN "ok" ELSE "fail"
            /\ pc' = "idle" /\ phase' = "none"
            /\ txTm_s' = 0 /\ timeout_ms' = 0 /\ t3_millis' = 0
            /\ totalRead' = 0 /\ t3_ticks' = 0
            /\ UNCHANGED <<sent, xpre>>

\* --------------------------------------------------------------- the API
\* update(), lines 120-123
Update ==
  /\ pc = "idle" /\ ops < MaxOps
  /\ ops' = ops + 1
  /\ CallUpdate(lastNtpTime, lastUpdateMillis)
  /\ UNCHANGED <<client, platform, rd, xend, twin, millis, lastEv, xlog, synced, ticks>>

\* end() that forgets to clear _lastUpdateMillis
End_KeepsTick ==
  /\ pc = "idle" /\ ops < MaxOps
  /\ ops' = ops + 1
  /\ timeOffsetSeconds' = 0
  /\ lastNtpTime' = 0
  /\ lastEv' = "end"
  /\ synced' = FALSE
  /\ UNCHANGED <<lastUpdateMillis, timeoutMs, platform, rd, xend, twin, millis, locals, sent,
                 ret, xpre, xlog, t3_ticks, ticks>>

\* end(), lines 45-50
End ==
  /\ pc = "idle" /\ ops < MaxOps
  /\ ops' = ops + 1
  /\ timeOffsetSeconds' = 0
  /\ lastNtpTime' = 0
  /\ lastUpdateMillis' = 0
  /\ lastEv' = "end"
  /\ synced' = FALSE
  /\ UNCHANGED <<timeoutMs, platform, rd, xend, twin, millis, locals, sent, ret, xpre, xlog,
                 t3_ticks, ticks>>

\* begin(), lines 37-40: end(), then update()
Begin ==
  /\ pc = "idle" /\ ops < MaxOps
  /\ ops' = ops + 1
  /\ timeOffsetSeconds' = 0
  /\ lastNtpTime' = 0
  /\ lastUpdateMillis' = 0
  /\ lastEv' = "end"
  /\ synced' = FALSE
  /\ CallUpdate(0, 0)
  /\ UNCHANGED <<timeoutMs, platform, rd, xend, twin, millis, xlog, ticks>>

\* setTimeOffsetSeconds, line 98
SetTimeOffsetSeconds(offset) ==
  /\ pc = "idle" /\ ops < MaxOps
  /\ ops' = ops + 1
  /\ timeOffsetSeconds' = offset
  /\ UNCHANGED <<lastNtpTime, lastUpdateMillis, timeoutMs, platform, rd, xend, twin, millis,
                 locals, history, ticks>>

\* setTimeOffsetHours, line 104
SetTimeOffsetHours(hours) ==
  /\ pc = "idle" /\ ops < MaxOps
  /\ ops' = ops + 1
  /\ timeOffsetSeconds' = hours * SECONDS_PER_HOUR
  /\ UNCHANGED <<lastNtpTime, lastUpdateMillis, timeoutMs, platform, rd, xend, twin, millis,
                 locals, history, ticks>>

\* ------------------------------------------------- the exchange, by step
\* lines 225-231: the transport calls (begin, beginPacket, write, endPacket)
\* have put the request on the wire, and the deadline is taken from the
\* counter as it reads now, after those calls
SendRequest ==
  /\ pc = "send"
  /\ sent' = Append(sent, OnWire(Request(txTm_s, littleEndian), littleEndian))
  /\ timeout_ms' = U32(millis + timeoutMs)
  /\ pc' = "poll"
  /\ UNCHANGED <<client, platform, rd, xend, twin, millis, phase, txTm_s,
                 t3_millis, totalRead, ret, xpre, lastEv, xlog, synced,
                 t3_ticks, ops, ticks>>

\* a wait loop that sends the request again when the deadline has passed
PollNone_Retries ==
  /\ pc = "poll"
  /\ IF millis > timeout_ms /\ Len(sent) < 3
       THEN /\ EnterExchange(phase, lastNtpTime, lastUpdateMillis, sent)
            /\ UNCHANGED <<client, platform, rd, xend, twin, millis, ret, lastEv,
                           xlog, synced, ops, ticks>>
       ELSE UNCHANGED vars

\* lines 233-238: parsePacket() returns 0; the loop goes round, or gives up
\* once the counter reads more than the deadline
PollNone ==
  /\ pc = "poll"
  /\ IF millis > timeout_ms
       THEN /\ ExchangeReturns(FALSE, lastNtpTime, lastUpdateMillis)
            /\ xend' = [msg |-> "NTP: request timed out", got |-> 0]
            /\ UNCHANGED <<timeOffsetSeconds, timeoutMs, platform, rd, twin, millis,
                           xlog, ops, ticks>>
       ELSE UNCHANGED vars

\* lines 233, 241-251: parsePacket() returns size (packetSize, not 0); the
\* receive tick is taken; a datagram shorter than the struct is read for the
\* log only
PollArrive(size) ==
  /\ pc = "poll"
  /\ IF size < NTP_PACKET_SIZE
       THEN /\ ExchangeReturns(FALSE, lastNtpTime, lastUpdateMillis)
            /\ xend' = [msg |-> "NTP: packet too short", got |-> size]
            /\ UNCHANGED <<timeOffsetSeconds, timeoutMs, platform, rd, twin, millis,
                           xlog, ops, ticks>>
       ELSE /\ pc' = "read"
            /\ t3_millis' = U32(millis)
            /\ t3_ticks' = ticks
            /\ totalRead' = 0
            /\ UNCHANGED <<client, platform, rd, xend, twin, millis, phase, txTm_s, timeout_ms,
                           sent, ret, xpre, lastEv, xlog, synced, ops, ticks>>

\* an install that takes the receive tick after the read, not on arrival
Decode_LateTick(reply) ==
  LET new == Installed(lastNtpTime, lastUpdateMillis, timeOffsetSeconds, txTm_s,
                       reply, U32(millis), millis, littleEndian, long64,
                       overflowWraps)
  IN
    /\ xlog' = [arg |-> txTm_s, originate |-> new.originate,
                receive |-> new.receive, transmit |-> new.transmit,
                t3_ntp |-> new.t3_ntp, ntp |-> new.ntp, t3 |-> U32(millis),
                t3_ticks |-> t3_ticks]
    /\ ExchangeReturns(TRUE, new.ntp, new.upd)

\* lines 272-298, once the 48 bytes of datagram reply are in the struct
Decode(reply) ==
  LET new == Installed(lastNtpTime, lastUpdateMillis, timeOffsetSeconds, txTm_s,
                       reply, t3_millis, millis, littleEndian, long64,
                       overflowWraps)
  IN
    /\ xlog' = [arg |-> txTm_s, originate |-> new.originate,
                receive |-> new.receive, transmit |-> new.transmit,
                t3_ntp |-> new.t3_ntp, ntp |-> new.ntp, t3 |-> t3_millis,
                t3_ticks |-> t3_ticks]
    /\ ExchangeReturns(TRUE, new.ntp, new.upd)

\* a read loop that goes on to decode whatever the first read() delivered
ReadChunk_NoCountCheck(n, reply) ==
  /\ pc = "read"
  /\ n <= NTP_PACKET_SIZE - totalRead
  /\ Decode(reply)
  /\ xend' = [msg |-> "", got |-> totalRead + n]
  /\ UNCHANGED <<timeOffsetSeconds, timeoutMs, platform, rd, twin, millis,
                 ops, ticks>>

\* lines 257-260: available() is not 0 and read() returns n bytes of the
\* datagram reply
ReadChunk(n, reply) ==
  /\ pc = "read"
  /\ n <= NTP_PACKET_SIZE - totalRead
  /\ IF totalRead + n < NTP_PACKET_SIZE
       THEN /\ totalRead' = totalRead + n
            /\ UNCHANGED <<client, platform, rd, xend, twin, millis, pc, phase, txTm_s,
                           timeout_ms, t3_millis, history,
                           ops, ticks>>
       ELSE /\ Decode(reply)
            /\ xend' = [msg |-> "", got |-> totalRead + n]
            /\ UNCHANGED <<timeOffsetSeconds, timeoutMs, platform, rd, twin, millis,
                           ops, ticks>>

\* a short read that has already stored the receive tick in the anchor
ReadStop_StoresTick ==
  /\ pc = "read"
  /\ totalRead < NTP_PACKET_SIZE
  /\ ExchangeReturns(FALSE, lastNtpTime, t3_millis)
  /\ xend' = [msg |-> "NTP: response read incomplete", got |-> totalRead]
  /\ UNCHANGED <<timeOffsetSeconds, timeoutMs, platform, rd, twin, millis, xlog,
                 ops, ticks>>

\* lines 257-270: available() returns 0, or read() returns 0 or less, before
\* the struct is full
ReadStop ==
  /\ pc = "read"
  /\ totalRead < NTP_PACKET_SIZE
  /\ ExchangeReturns(FALSE, lastNtpTime, lastUpdateMillis)
  /\ xend' = [msg |-> "NTP: response read incomplete", got |-> totalRead]
  /\ UNCHANGED <<timeOffsetSeconds, timeoutMs, platform, rd, twin, millis, xlog,
                 ops, ticks>>

\* ------------------------------------------------------ reading the time
\* a getTimeMs() that moves the anchor to the counter reading it was called at
ReadMs_Reanchors ==
  /\ ops < MaxOps
  /\ ops' = ops + 1
  /\ rd' = [NoRead EXCEPT !.op = "ms", !.prev = rd.op, !.at = millis,
                          !.tk = ticks, !.ops = ops',
                          !.ms = getTimeMs(lastNtpTime, lastUpdateMillis,
                                           timeOffsetSeconds, millis)]
  /\ IF lastUpdateMillis = 0
       THEN UNCHANGED <<lastNtpTime, lastUpdateMillis>>
       ELSE /\ lastNtpTime' = U32(lastNtpTime
                                  + U32(millis - lastUpdateMillis) \div MS_PER_SECOND)
            /\ lastUpdateMillis' = U32(millis)
  /\ UNCHANGED <<timeOffsetSeconds, timeoutMs, platform, xend, millis, locals,
                 history, ticks, twin>>

\* getTimeMs(), lines 65-75, called at the current counter reading
ReadMs ==
  /\ ops < MaxOps
  /\ ops' = ops + 1
  /\ rd' = [NoRead EXCEPT !.op = "ms", !.prev = rd.op, !.at = millis,
                          !.tk = ticks, !.ops = ops',
                          !.ms = getTimeMs(lastNtpTime, lastUpdateMillis,
                                           timeOffsetSeconds, millis)]
  /\ UNCHANGED <<client, platform, xend, millis, locals, history, ticks, twin>>

\* getTimeSec(), lines 56-59
ReadSec ==
  /\ ops < MaxOps
  /\ ops' = ops + 1
  /\ rd' = [NoRead EXCEPT !.op = "sec", !.prev = rd.op, !.at = millis,
                          !.tk = ticks, !.ops = ops',
                          !.sec = getTimeSec(lastNtpTime, lastUpdateMillis,
                                             timeOffsetSeconds, millis)]
  /\ UNCHANGED <<client, platform, xend, millis, locals, history, ticks, twin>>

\* getTm(), lines 87-92
ReadTm ==
  /\ ops < MaxOps
  /\ ops' = ops + 1
  /\ rd' = [NoRead EXCEPT !.op = "tm", !.prev = rd.op, !.at = millis,
                          !.tk = ticks, !.ops = ops',
                          !.tm = getTm(getTimeSec(lastNtpTime, lastUpdateMillis,
                                                  timeOffsetSeconds, millis))]
  /\ UNCHANGED <<client, platform, xend, millis, locals, history, ticks, twin>>

\* ::millis() advances by one
Tick ==
  /\ ticks < MaxTicks
  /\ ticks' = ticks + 1
  /\ millis' = ULong(millis + 1, millis64)
  /\ UNCHANGED <<client, platform, rd, xend, twin, locals, history, ops>>

Next ==
  \/ Update
  \/ End
  \/ Begin
  \/ \E offset \in OffsetSeconds : SetTimeOffsetSeconds(offset)
  \/ \E hours \in OffsetHours : SetTimeOffsetHours(hours)
  \/ SendRequest
  \/ PollNone
  \/ \E size \in PacketSizes : PollArrive(size)
  \/ \E n \in ChunkSizes, reply \in Replies(txTm_s) : ReadChunk(n, reply)
  \/ ReadStop
  \/ Tick

Spec == Init /\ [][Next]_vars


\* ------------------------------------------------- a silent transport
\* The client with a transport on which parsePacket() always returns 0, while
\* the counter runs on.  A run starts with a client that was constructed or
\* has the anchor of an update() one tick earlier, at a counter reading for
\* which send tick + timeout stays below, reaches or passes the maximum of the
\* counter, and makes one call of update().  One tick after the anchor tick
\* 2^32 - 1 a 32-bit counter reads 0 and a 64-bit counter reads 2^32.
Timeouts == {ShortTimeout, DEFAULT_TIMEOUT_MS}
SilentStarts(t) == {0, Word - 1 - t, Word - t}

InitSilent ==
  /\ timeoutMs \in Timeouts
  /\ littleEndian \in BOOLEAN /\ long64 \in BOOLEAN
  /\ overflowWraps \in IF long64 THEN {TRUE} ELSE BOOLEAN
  /\ millis64 \in IF long64 THEN BOOLEAN ELSE {FALSE}
  /\ \E start \in SilentStarts(timeoutMs) :
       \/ /\ lastNtpTime = 0 /\ lastUpdateMillis = 0
          /\ millis = start
       \/ /\ lastNtpTime = 100 /\ lastUpdateMillis = U32(start - 1)
          /\ millis = ULong(lastUpdateMillis + 1, millis64)
  /\ timeOffsetSeconds = 0
  /\ pc = "idle" /\ phase = "none"
  /\ txTm_s = 0 /\ timeout_ms = 0 /\ t3_millis = 0
  /\ totalRead = 0
  /\ sent = <<>> /\ ret = "none" /\ xpre = <<0, 0>>
  /\ lastEv = "init" /\ xlog = NoLog /\ synced = (lastUpdateMillis # 0)
  /\ t3_ticks = 0
  /\ ops = MaxOps - 1 /\ ticks = 0
  /\ twin = NoTwin
  /\ rd = NoRead /\ xend = NoEnd

\* The counter's range while update() waits: readings up to SilentSpan above
\* zero and readings down to SilentSpan below the maximum are visited tick by
\* tick.  Between them lie the readings at which nothing changes for the
\* loop of lines 233-238: every deadline of a run (a start plus a timeout,
\* modulo 2^32) is below SilentSpan or within SilentSpan of 2^32 - 1.  A
\* 64-bit counter goes on above Word; its readings from Word + SilentSpan on
\* are all above every deadline.
SilentSpan == timeoutMs + 2

\* ::millis() advances by one while update() is waiting
TickSilent ==
  /\ pc = "poll"
  /\ millis # SilentSpan
  /\ millis < Word + SilentSpan
  /\ millis' = ULong(millis + 1, millis64)
  /\ UNCHANGED <<client, platform, rd, xend, twin, locals, history, ops, ticks>>

\* ::millis() advances from SilentSpan to SilentSpan below its maximum while
\* update() is waiting
RunSilent ==
  /\ pc = "poll"
  /\ millis = SilentSpan
  /\ millis' = ULong(millis + (Word - 2 * SilentSpan), millis64)
  /\ UNCHANGED <<client, platform, rd, xend, twin, locals, history, ops, ticks>>

NextSilent ==
  \/ Update
  \/ SendRequest
  \/ PollNone
  \/ TickSilent
  \/ RunSilent

\* The transport calls of lines 225-228 return, the counter keeps advancing,
\* and the loop of lines 233-238 goes round many times within one tick: a
\* reading above the deadline that comes again and again is seen by the loop.
SpecSilent ==
  /\ InitSilent /\ [][NextSilent]_vars
  /\ WF_vars(SendRequest) /\ WF_vars(TickSilent) /\ WF_vars(RunSilent)
  /\ SF_vars(PollNone)


\* ----------------------------------------------- two clients side by side
\* The client and a twin on the same platform that see the same counter
\* readings, the same transport events and the same server (a reply of one
\* kind to each of them), and are given the same calls except for the value
\* passed to setTimeOffsetSeconds / setTimeOffsetHours.

\* update(), lines 120-123, called on both clients
PairUpdate ==
  /\ pc = "idle" /\ ops < MaxOps
  /\ ops' = ops + 1
  /\ CallUpdate(lastNtpTime, lastUpdateMillis)
  /\ twin' = [twin EXCEPT !.txTm_s =
                TransmitSeconds(IF twin.lastUpdateMillis = 0 THEN "boot" ELSE "rtc",
                                twin.lastNtpTime, twin.lastUpdateMillis,
                                twin.timeOffsetSeconds, millis)]
  /\ UNCHANGED <<client, platform, rd, xend, millis, lastEv, xlog, synced, ticks>>

\* lines 257-298 on both clients: the last read() fills the struct with the
\* reply of kind kind to each client's request, the anchor is installed and
\* ntpExchange returns true; after updateWithoutRTC, update() goes on with
\* updateWithRTC
PairDecode(n, kind) ==
  /\ pc = "read"
  /\ totalRead + n = NTP_PACKET_SIZE
  /\ Decode(ReplyOf(kind, txTm_s))
  /\ xend' = [msg |-> "", got |-> totalRead + n]
  /\ LET new == Installed(twin.lastNtpTime, twin.lastUpdateMillis,
                          twin.timeOffsetSeconds, twin.txTm_s,
                          ReplyOf(kind, twin.txTm_s), t3_millis, millis,
                          littleEndian, long64, overflowWraps)
     IN  twin' = [twin EXCEPT
                    !.lastNtpTime = new.ntp, !.lastUpdateMillis = new.upd,
                    !.arg = twin.txTm_s, !.updated = TRUE,
                    !.txTm_s = IF phase = "boot"
                                 THEN TransmitSeconds("rtc", new.ntp, new.upd,
                                                      twin.timeOffsetSeconds,
                                                      millis)
                                 ELSE 0]
  /\ UNCHANGED <<timeOffsetSeconds, timeoutMs, platform, rd, millis, ops, ticks>>

\* setTimeOffsetSeconds, line 98, with a on the client and b on the twin
PairSetTimeOffsetSeconds(a, b) ==
  /\ pc = "idle" /\ ops < MaxOps
  /\ ops' = ops + 1
  /\ timeOffsetSeconds' = a
  /\ twin' = [twin EXCEPT !.timeOffsetSeconds = b, !.updated = FALSE]
  /\ UNCHANGED <<lastNtpTime, lastUpdateMillis, timeoutMs, platform, rd, xend, millis,
                 locals, history, ticks>>

\* setTimeOffsetHours, line 104, with a on the client and b on the twin
PairSetTimeOffsetHours(a, b) ==
  /\ pc = "idle" /\ ops < MaxOps
  /\ ops' = ops + 1
  /\ timeOffsetSeconds' = a * SECONDS_PER_HOUR
  /\ twin' = [twin EXCEPT !.timeOffsetSeconds = b * SECONDS_PER_HOUR,
                          !.updated = FALSE]
  /\ UNCHANGED <<lastNtpTime, lastUpdateMillis, timeoutMs, platform, rd, xend, millis,
                 locals, history, ticks>>

NextPair ==
  \/ PairUpdate
  \/ SendRequest
  \/ PollNone
  \/ \E size \in PacketSizes : PollArrive(size)
  \/ \E n \in ChunkSizes, reply \in Replies(txTm_s) :
       totalRead + n < NTP_PACKET_SIZE /\ ReadChunk(n, reply)
  \/ \E n \in ChunkSizes, kind \in ReplyKinds : PairDecode(n, kind)
  \/ ReadStop
  \/ \E a \in OffsetSeconds \cup {0}, b \in OffsetSeconds \cup {0} :
       a # b /\ PairSetTimeOffsetSeconds(a, b)
  \/ \E a \in OffsetHours \cup {0}, b \in OffsetHours \cup {0} :
       a # b /\ PairSetTimeOffsetHours(a, b)
  \/ Tick

SpecPair == Init /\ [][NextPair]_vars


\* --------------------------------------- a reader that interrupts update()
\* The client with a second context (an interrupt handler, another task) that
\* calls getTimeMs() while update() is in progress.  Nothing orders the two
\* stores of lines 284-285 (293-294) against that reader, nor the reader's
\* loads against update(): the reader can run between the stores, the build
\* may issue them in either order, and update() can run between any two of
\* the reader's steps (a reader that is not held makes its steps in a row).

\* the complete anchors of the moment: while the two stores are being made,
\* the one from before and the one from after
CompleteAnchors ==
  IF pc = "install" THEN {xpre, <<xlog.ntp, xlog.t3>>}
  ELSE {<<lastNtpTime, lastUpdateMillis>>}

\* getTimeMs(), line 66: the test of _lastUpdateMillis
ReadMsTest ==
  /\ ops < MaxOps /\ rd.pc = "none"
  /\ ops' = ops + 1
  /\ rd' = IF lastUpdateMillis = 0
             THEN [NoRead EXCEPT !.op = "ms", !.prev = rd.op, !.at = millis,
                                 !.tk = ticks, !.ops = ops', !.ms = U64(0)]
             ELSE [rd EXCEPT !.pc = "counter", !.call = ops',
                             !.seen = CompleteAnchors]
  /\ UNCHANGED <<client, platform, xend, millis, locals, history, ticks, twin>>

\* getTimeMs(), line 70: the call of ::millis()
ReadMsCounter ==
  /\ rd.pc = "counter"
  /\ rd' = [rd EXCEPT !.pc = "tick", !.now = millis]
  /\ UNCHANGED <<client, platform, xend, millis, locals, history, ops, ticks,
                 twin>>

\* getTimeMs(), line 70: _lastUpdateMillis is loaded and subtracted
ReadMsTick ==
  /\ rd.pc = "tick"
  /\ rd' = [rd EXCEPT !.pc = "ntp",
                      !.ms_since_update = U32(rd.now - lastUpdateMillis)]
  /\ UNCHANGED <<client, platform, xend, millis, locals, history, ops, ticks,
                 twin>>

\* getTimeMs(), lines 72-74: _lastNtpTime and _timeOffsetSeconds are loaded
\* and the sum is returned
ReadMsReturn ==
  /\ rd.pc = "ntp"
  /\ rd' = [NoRead EXCEPT !.op = "ms", !.prev = rd.op, !.at = rd.now,
                          !.tk = ticks, !.ops = rd.call,
                          !.ms = U64(lastNtpTime * MS_PER_SECOND
                                     + rd.ms_since_update
                                     + timeOffsetSeconds * MS_PER_SECOND)]
  /\ UNCHANGED <<client, platform, xend, millis, locals, history, ops, ticks,
                 twin>>

\* the last read() fills the struct (lines 257-264) and the first of the two
\* stores is made
RaceStore(n, reply, first) ==
  /\ pc = "read"
  /\ totalRead + n = NTP_PACKET_SIZE
  /\ LET new == Installed(lastNtpTime, lastUpdateMillis, timeOffsetSeconds,
                          txTm_s, reply, t3_millis, millis, littleEndian,
                          long64, overflowWraps)
     IN
       /\ xlog' = [arg |-> txTm_s, originate |-> new.originate,
                   receive |-> new.receive, transmit |-> new.transmit,
                   t3_ntp |-> new.t3_ntp, ntp |-> new.ntp, t3 |-> t3_millis,
                   t3_ticks |-> t3_ticks]
       /\ IF first = "_lastNtpTime"
            THEN lastNtpTime' = new.ntp /\ UNCHANGED lastUpdateMillis
            ELSE lastUpdateMillis' = new.upd /\ UNCHANGED lastNtpTime
       /\ rd' = IF rd.pc = "none" THEN rd
                ELSE [rd EXCEPT !.seen = @ \cup {<<new.ntp, new.upd>>}]
  /\ pc' = "install"
  /\ totalRead' = totalRead + n
  /\ UNCHANGED <<timeOffsetSeconds, timeoutMs, platform, xend, twin, millis,
                 phase, txTm_s, timeout_ms, t3_millis, sent, ret, xpre, lastEv,
                 synced, t3_ticks, ops, ticks>>

\* the other store is made and ntpExchange returns true (line 298)
RaceFinish ==
  /\ pc = "install"
  /\ ExchangeReturns(TRUE, xlog.ntp, xlog.t3)
  /\ xend' = [msg |-> "", got |-> totalRead]
  /\ UNCHANGED <<timeOffsetSeconds, timeoutMs, platform, rd, twin, millis, xlog,
                 ops, ticks>>

NextRace ==
  \/ Update
  \/ SendRequest
  \/ PollNone
  \/ \E size \in PacketSizes : PollArrive(size)
  \/ \E n \in ChunkSizes, reply \in Replies(txTm_s) :
       totalRead + n < NTP_PACKET_SIZE /\ ReadChunk(n, reply)
  \/ \E n \in ChunkSizes, reply \in Replies(txTm_s),
        first \in {"_lastNtpTime", "_lastUpdateMillis"} :
       RaceStore(n, reply, first)
  \/ RaceFinish
  \/ ReadStop
  \/ ReadMsTest
  \/ ReadMsCounter
  \/ ReadMsTick
  \/ ReadMsReturn
  \/ Tick

SpecRace == Init /\ [][NextRace]_vars


\* ------------------------------------------------ a clock that is read
\* The client between syncs: it has the anchor of an earlier update() (or
\* none), the time is read, the display offset is set, end() is called, and
\* the counter runs on, for longer than one period of the counter.

\* ticks that go by between two calls: a second, or a second less than a
\* period of the counter
TickSteps == {MS_PER_SECOND, Word - MS_PER_SECOND}
\* at most MaxSeconds steps of a second, and two periods of the counter, in a run
MaxSeconds == 3
MaxElapsed == 2 * Word
ClockAnchors == {<<0, 0>>, <<100, 1>>, <<ServerLate - NTP_EPOCH_DELTA, Word - 1>>}

InitClock ==
  /\ littleEndian \in BOOLEAN /\ long64 \in BOOLEAN
  /\ overflowWraps \in IF long64 THEN {TRUE} ELSE BOOLEAN
  /\ millis64 \in IF long64 THEN BOOLEAN ELSE {FALSE}
  /\ \E prior \in ClockAnchors :
       lastNtpTime = prior[1] /\ lastUpdateMillis = prior[2]
  /\ millis \in {lastUpdateMillis, ULong(lastUpdateMillis + 1, millis64)}
  /\ timeOffsetSeconds = 0
  /\ timeoutMs = ShortTimeout
  /\ pc = "idle" /\ phase = "none"
  /\ txTm_s = 0 /\ timeout_ms = 0 /\ t3_millis = 0
  /\ totalRead = 0
  /\ sent = <<>> /\ ret = "none" /\ xpre = <<0, 0>>
  /\ lastEv = "init" /\ xlog = NoLog /\ synced = (lastUpdateMillis # 0)
  /\ t3_ticks = 0
  /\ ops = 0 /\ ticks = 0
  /\ twin = NoTwin
  /\ rd = NoRead /\ xend = NoEnd

\* ::millis() advances by d
Advance(d) ==
  /\ ticks + d <= MaxElapsed
  /\ d = MS_PER_SECOND =>
       (ticks % (Word - MS_PER_SECOND)) + d <= MaxSeconds * MS_PER_SECOND
  /\ ticks' = ticks + d
  /\ millis' = ULong(millis + d, millis64)
  /\ UNCHANGED <<client, platform, rd, xend, twin, locals, history, ops>>

NextClock ==
  \/ ReadMs
  \/ ReadSec
  \/ ReadTm
  \/ End
  \/ \E offset \in OffsetSeconds : SetTimeOffsetSeconds(offset)
  \/ \E hours \in OffsetHours : SetTimeOffsetHours(hours)
  \/ \E d \in TickSteps : Advance(d)

SpecClock == InitClock /\ [][NextClock]_vars

\* ================================================================ claims
anchor == <<lastNtpTime, lastUpdateMillis>>

\* counter readings a caller may see
Readings == {0, 1, millis, Word - 1}
\* ticks elapsed since a receive tick
Elapsed == {0, 1, MS_PER_SECOND - 1, MS_PER_SECOND, 2 * MS_PER_SECOND + 500, Word - 1}
\* a uint64_t read as a signed number, and the order of uint64_t
Signed64(v) == IF 2 * v.hi < Word THEN v.hi * Word + v.lo
               ELSE (v.hi - Word) * Word + v.lo
Le64(v, w) == v.hi < w.hi \/ (v.hi = w.hi /\ v.lo <= w.lo)
\* a difference of two uint32_t read as a signed number
Signed(u) == IF 2 * u < Word THEN u ELSE u - Word

\* C1: a failed exchange never mutates the anchor: while an exchange is in
\* progress, and after it has returned false (timeout, short datagram, short
\* read), the anchor is the one ntpExchange was entered with.
C1_FailedExchangeKeepsAnchor ==
  (pc # "idle" \/ lastEv = "xfail") => anchor = xpre

C1_Witness ==
  /\ pc = "idle" /\ lastEv = "xfail" /\ ret = "fail"
  /\ lastNtpTime # 0 /\ lastUpdateMillis # 0

\* C2: once an exchange has succeeded, operator bool() is true, whatever the
\* counter read when the reply arrived.
C2_SyncedHasAnchor ==
  lastEv = "xok" => hasAnchor(lastUpdateMillis)

\* C3: until an exchange succeeds, a constructed client and a client after
\* end() report operator bool() false and time 0 at every counter reading.
C3_NeverSyncedDefault ==
  ~synced =>
    /\ ~hasAnchor(lastUpdateMillis)
    /\ \A now \in Readings :
         /\ getTimeMs(lastNtpTime, lastUpdateMillis, timeOffsetSeconds, now) = U64(0)
         /\ getTimeSec(lastNtpTime, lastUpdateMillis, timeOffsetSeconds, now) = 0

C3_Witness ==
  ~synced /\ lastEv = "end" /\ xlog # NoLog

\* C4: update() without an anchor sends the bootstrap request (transmit
\* seconds 0) first; it enters a second exchange only in the step in which the
\* bootstrap exchange returns true, and sends the second request only then; a
\* failed bootstrap exchange ends update()
\* with false, no further request and no anchor.
C4_BootstrapFirst ==
  [][ /\ (pc = "idle" /\ pc' # "idle" /\ lastUpdateMillis' = 0) =>
           (phase' = "boot" /\ txTm_s' = 0 /\ sent' = <<>>)
      /\ (Len(sent) = 0 /\ Len(sent') = 1 /\ ~hasAnchor(xpre[2])) =>
           (phase = "boot" /\ sent'[1].txTm_s = 0)
      /\ (pc \in {"poll", "read"} /\ pc' = "send") =>
           (phase = "boot" /\ phase' = "rtc" /\ lastEv' = "xok" /\ sent' = sent)
      /\ (Len(sent) = 1 /\ Len(sent') = 2) =>
           (phase = "rtc" /\ lastEv = "xok" /\ xlog.arg = 0
            /\ sent'[1].txTm_s = 0)
      /\ (phase = "boot" /\ pc' = "idle") =>
           (lastEv' = "xfail" /\ ret' = "fail" /\ sent' = sent
            /\ ~hasAnchor(lastUpdateMillis'))
    ]_vars

C4_Witness ==
  phase = "rtc" /\ Len(sent) = 2 /\ sent[1].txTm_s = 0 /\ sent[2].txTm_s # 0

\* C5: when update() returns after a failed exchange it returns false and the
\* anchor is the one its last exchange was entered with: after a successful
\* bootstrap exchange that is the anchor the bootstrap exchange installed
\* (the reply's transmit seconds - 2208988800, the receive tick).
C5_GracefulDegradation ==
  (pc = "idle" /\ lastEv = "xfail") =>
    /\ ret = "fail"
    /\ anchor = xpre
    /\ Len(sent) = 2 =>
         /\ xlog.arg = 0
         /\ lastNtpTime = U32(xlog.transmit - NTP_EPOCH_DELTA)
         /\ lastUpdateMillis = xlog.t3

C5_Witness ==
  /\ pc = "idle" /\ lastEv = "xfail" /\ Len(sent) = 2
  /\ hasAnchor(lastUpdateMillis)

\* C7: after a successful offset-correcting exchange the reference time is
\* T3 - 2208988800 + ((T2 - T1) + (T3 - T4)) / 2, the differences signed
\* (stated where both differences are far from the ends of the signed range).
C7_OffsetFormula ==
  LET d21 == Signed(U32(xlog.receive - xlog.originate))
      d34 == Signed(U32(xlog.transmit - xlog.t3_ntp))
      far == Word \div 4
  IN  (lastEv = "xok" /\ xlog.arg # 0
       /\ -far < d21 /\ d21 < far /\ -far < d34 /\ d34 < far) =>
        lastNtpTime = U32(xlog.transmit - NTP_EPOCH_DELTA + TruncDiv(d21 + d34, 2))

\* C8: after a successful bootstrap exchange with display offset 0,
\* getTimeSec() read d ticks after the receive tick is
\* X - 2208988800 + floor(d / 1000), X the reply's transmit seconds.
C8_BootstrapCorrect ==
  (lastEv = "xok" /\ xlog.arg = 0 /\ timeOffsetSeconds = 0) =>
    \A d \in Elapsed :
      getTimeSec(lastNtpTime, lastUpdateMillis, timeOffsetSeconds, U32(xlog.t3 + d))
        = U32(xlog.transmit - NTP_EPOCH_DELTA + d \div MS_PER_SECOND)

\* C9: with an anchor, getTimeMs() is _lastNtpTime * 1000 + the ticks that
\* have really elapsed since the receive tick + _timeOffsetSeconds * 1000 (as
\* uint64_t), also when the counter has wrapped since the receive tick.
C9_RolloverSafe ==
  hasAnchor(lastUpdateMillis) =>
    \A d \in Elapsed :
      LET real == (ticks - xlog.t3_ticks) + d
      IN  real < Word =>
            getTimeMs(lastNtpTime, lastUpdateMillis, timeOffsetSeconds,
                      U32(millis + d))
              = U64(lastNtpTime * MS_PER_SECOND + real
                    + timeOffsetSeconds * MS_PER_SECOND)

\* the counter has wrapped since the receive tick
C9_Witness ==
  hasAnchor(lastUpdateMillis) /\ millis < lastUpdateMillis

\* C6: with a transport that never reports a datagram and a counter that
\* keeps advancing, every update() eventually returns false.
C6_TimeoutTerminates ==
  (pc = "poll") ~> (pc = "idle" /\ ret = "fail")

\* C10: two clients that differ only in their display offset send the same
\* transmit seconds in an offset-correcting exchange and install the same
\* reference time, so that their getTimeMs() readings differ by the
\* difference of the offsets times 1000 (stated for exchanges that leave
\* both with an anchor operator bool() reports).
C10_OffsetIndependent ==
  (pc = "idle" /\ ret = "ok" /\ twin.updated /\ xlog.arg # 0 /\ twin.arg # 0
   /\ hasAnchor(lastUpdateMillis) /\ hasAnchor(twin.lastUpdateMillis)) =>
    /\ xlog.arg = twin.arg
    /\ lastNtpTime = twin.lastNtpTime
    /\ \A now \in Readings :
         Signed64(getTimeMs(lastNtpTime, lastUpdateMillis, timeOffsetSeconds, now))
           - Signed64(getTimeMs(twin.lastNtpTime, twin.lastUpdateMillis,
                                twin.timeOffsetSeconds, now))
           = (timeOffsetSeconds - twin.timeOffsetSeconds) * MS_PER_SECOND

\* C11: a getTimeMs() that runs while update() is in progress returns what
\* a complete anchor gives at the reader's counter reading: an anchor that
\* existed, whole, at some moment of the read (the one from before an
\* exchange's install or the one from after it), never a value made of one
\* new field and one old field.
C11_AtomicReplace ==
  [][ (rd'.ops # rd.ops /\ rd'.op = "ms") =>
        LET whole == IF rd.pc = "none" THEN CompleteAnchors ELSE rd.seen
        IN  rd'.ms \in { getTimeMs(a[1], a[2], timeOffsetSeconds, rd'.at) :
                           a \in whole }
    ]_vars

\* the bit fields of li_vn_mode, line 138: LI(7-6) | VN(5-3) | Mode(2-0)
LeapIndicator(b) == b \div 64
VersionNumber(b) == (b \div 8) % 8
Mode(b) == b % 8
\* the bytes of a datagram: four one-byte fields, the other fields 32 bits
ByteFields == {"li_vn_mode", "stratum", "poll", "precision"}
Bytes(p) ==
  Cardinality(DOMAIN p \cap ByteFields) + 4 * Cardinality(DOMAIN p \ ByteFields)

\* C12: every request sent is 48 bytes, its flags byte encodes leap
\* indicator 0, version 3 and mode 3, its transmit seconds (big-endian) are
\* the value passed to ntpExchange, and every other field is zero.
C12_RequestEncoding ==
  \A i \in 1..Len(sent) :
    LET p == sent[i]
    IN  /\ Bytes(p) = NTP_PACKET_SIZE
        /\ LeapIndicator(p.li_vn_mode) = 0
        /\ VersionNumber(p.li_vn_mode) = 3
        /\ Mode(p.li_vn_mode) = 3
        /\ (pc \notin {"idle", "send"} /\ i = Len(sent)) => p.txTm_s = txTm_s
        /\ \A f \in DOMAIN p \ {"li_vn_mode", "txTm_s"} : p[f] = 0

\* C13: an exchange returns true exactly when it got past the size check
\* (declared size at least 48) and accumulated 48 bytes, in whatever split
\* and with whatever field contents; a declared size below 48, and a
\* transport that has no more data before 48 bytes are accumulated, make it
\* return false.
C13_ShortRead ==
  [][ (pc \in {"poll", "read"} /\ pc' \in {"idle", "send"}) =>
        /\ lastEv' = "xok" <=> (pc = "read" /\ xend'.got = NTP_PACKET_SIZE)
        /\ lastEv' = "xok" => xend'.msg = ""
        /\ lastEv' = "xfail" =>
             /\ ret' = "fail"
             /\ xend'.msg # ""
             /\ xend'.got < NTP_PACKET_SIZE
    ]_vars

\* update() has returned true after exchanges that accumulated 48 bytes
C13_Witness ==
  /\ pc = "idle" /\ ret = "ok" /\ lastEv = "xok"
  /\ xend = [msg |-> "", got |-> NTP_PACKET_SIZE]

\* C14: getTimeMs(), getTimeSec() and getTm() change nothing but what they
\* return: the anchor, the display offset, the timeout, the counter and the
\* exchange (requests sent, position, locals, log) are as before; and a
\* getTimeMs() that follows a getTimeMs() with no call in between, at the
\* same counter reading, returns the same value.
C14_ReadsArePure ==
  [][ rd'.ops # rd.ops =>
        /\ client' = client /\ millis' = millis
        /\ locals' = locals /\ history' = history /\ xend' = xend
        /\ (rd.op = "ms" /\ rd'.op = "ms" /\ rd'.ops = rd.ops + 1
            /\ rd'.at = rd.at) => rd'.ms = rd.ms
    ]_vars

\* a getTimeMs() that follows another getTimeMs(), on a client with an anchor,
\* after the counter has run through a full period
C14_Witness ==
  /\ rd.op = "ms" /\ rd.prev = "ms" /\ rd.ms # U64(0)
  /\ rd.at = millis /\ rd.tk = ticks /\ ticks >= Word

\* C16: with an anchor, a getTimeMs() that follows a getTimeMs() with no
\* other call in between returns at least what the earlier one returned,
\* however many ticks went by in between.
C16_KeepsAdvancing ==
  [][ (rd.op = "ms" /\ rd'.op = "ms" /\ rd'.ops = rd.ops + 1
       /\ hasAnchor(lastUpdateMillis)) => Le64(rd.ms, rd'.ms)
    ]_vars

\* C15: ntpExchange gives up with the timeout failure only when more than
\* _timeoutMs ticks have gone by since the request was sent (the send tick is
\* the deadline less the timeout, the ticks gone by the counter's distance
\* from it, both modulo the width of the counter).
C15_NoEarlyTimeout ==
  [][ (pc = "poll" /\ pc' = "idle" /\ xend'.msg = "NTP: request timed out") =>
        LET send_tick == U32(timeout_ms - timeoutMs)
        IN  U32(millis - send_tick) > timeoutMs
    ]_vars

\* C17: a call of update() sends one request to begin with; it sends a
\* second one only when it was called without an anchor (operator bool()
\* false) and its first exchange succeeded, and none after that; an exchange
\* that fails ends the call with no further request.
C17_NoRetry ==
  [][ /\ (pc = "idle" /\ pc' # "idle") => (pc' = "send" /\ sent' = <<>>)
      /\ (pc # "idle" /\ sent' # sent) =>
           /\ pc = "send" /\ pc' = "poll"
           /\ Len(sent') = Len(sent) + 1
           /\ SubSeq(sent', 1, Len(sent)) = sent
           /\ \/ Len(sent) = 0
              \/ /\ Len(sent) = 1 /\ sent[1].txTm_s = 0
                 /\ phase = "rtc" /\ lastEv = "xok" /\ xlog.arg = 0
      /\ (pc \in {"poll", "read"} /\ pc' = "send") =>
           (phase = "boot" /\ lastEv' = "xok" /\ Len(sent) = 1)
      /\ (pc \in {"poll", "read"} /\ pc' \notin {"poll", "read"}
          /\ lastEv' = "xfail") =>
           (pc' = "idle" /\ sent' = sent /\ ret' = "fail")
    ]_vars

\* update() called with an anchor has returned false after a timeout, having
\* sent one request
C17_Witness ==
  /\ pc = "idle" /\ ret = "fail" /\ Len(sent) = 1
  /\ xend.msg = "NTP: request timed out"
  /\ hasAnchor(xpre[2])

\* C18: after a successful exchange the reference tick is the counter
\* reading of the moment parsePacket() reported the datagram (the current
\* reading less the ticks gone by since), not a reading taken during or
\* after the read.
C18_ReceiveTickOnArrival ==
  lastEv = "xok" =>
    /\ lastUpdateMillis = xlog.t3
    /\ lastUpdateMillis = U32(millis - (ticks - xlog.t3_ticks))

\* a bootstrap exchange has just succeeded (update() is about to send the
\* second request) and the counter moved on between arrival and the last read
C18_Witness ==
  /\ lastEv = "xok" /\ Len(sent) = 1 /\ pc = "send"
  /\ xlog.t3_ticks < ticks
  /\ lastUpdateMillis # millis

\* C19: the first request of an update() called on a client with an anchor
\* carries non-zero transmit seconds, so that the exchange takes the offset
\* branch (useOffset, line 272) and not the direct assignment.
C19_DirectOnlyForBootstrap ==
  (phase = "rtc" /\ hasAnchor(xpre[2])
   /\ Len(sent) = (IF pc = "send" THEN 0 ELSE 1)) =>
    (txTm_s # 0 /\ \A i \in 1..Len(sent) : sent[i].txTm_s # 0)

\* C20: with display offset 0, after an offset-correcting exchange with a
\* server that echoes the request's transmit seconds and stamps receive and
\* transmit with the same time (no network delay), getTimeSec() at the receive
\* tick is the server's transmit seconds - 2208988800, whatever the anchor
\* before the exchange was.
C20_SyncCorrectsClock ==
  (lastEv = "xok" /\ xlog.arg # 0 /\ timeOffsetSeconds = 0
   /\ xlog.originate = xlog.arg /\ xlog.receive = xlog.transmit) =>
    getTimeSec(lastNtpTime, lastUpdateMillis, timeOffsetSeconds, xlog.t3)
      = U32(xlog.transmit - NTP_EPOCH_DELTA)

====
